---- MODULE Spec2Model ----
(***************************************************************************)
(* A model of the coordination primitives of chromedp's wait.go and nav.go *)
(* WaitOneOf (first-of-N race), WaitUntil (retry loop), IntervalRun        *)
(* (periodic loop) and waitNavEvent (event-predicate wait).                *)
(*                                                                         *)
(* Go's select is modelled as the runtime executes it: a select looks at   *)
(* its cases atomically; a case is ready when a partner is already parked  *)
(* on the channel (unbuffered send/receive) or the channel is closed       *)
(* (ctx.Done()); one ready case is chosen nondeterministically; with none  *)
(* ready the goroutine parks on all its cases.  Closing a Done channel     *)
(* wakes every goroutine parked on it, which commits it to the Done case.  *)
(***************************************************************************)
EXTENDS Integers, Sequences, FiniteSets, TLC

\* ---------------------------------------------------------------- bounds
MaxActions == 3

\* ------------------------------------------------------------- variables
VARIABLES
    ctx,        \* error of the caller's scope: "none" until it is cancelled
    \* WaitOneOf
    actions,    \* idx -> behaviour of actions[idx]
    hasSlot,    \* waitIdx != nil
    waitIdx,    \* *waitIdx
    cpc,        \* position of the coordinator
    idx,        \* the launch loop's variable
    dctx,       \* error of the derived scope
    wg,         \* the WaitGroup's counter
    epc,        \* idx -> position of the executor goroutine
    eret,       \* idx -> what action.Do returned ("pending" before)
    sendq,      \* executors parked sending on retC, in arrival order
    r,          \* the ret value the coordinator received
    raceRet,    \* what the ActionFunc returned
    accepted,   \* handoffs on retC in this race
    cancelFirst,\* the caller's scope was cancelled before any action finished
    leaked,     \* executors still alive when their race had returned
    \* WaitUntil
    wuC,        \* f returns ErrContinueWait on its first wuC invocations
    wuFinal,    \* and this afterwards ("continue": on every invocation)
    wpc,        \* position of the loop
    wuTimer,    \* tm: "none", "armed" or "fired"
    wuCalls,    \* invocations of f
    wuTicks,    \* receives from tm.C
    wuRet,      \* what the ActionFunc returned
    wuTickLate, \* the latest tick was taken with the scope done already
    wuLateCall, \* f was invoked for such a tick
    \* IntervalRun
    irFailAt,   \* the invocation at which action.Do fails (0: never)
    ipc,        \* position of the loop
    irTimer,    \* tm
    irCalls,    \* invocations of action.Do
    irRet,      \* what the ActionFunc returned
    \* Navigate / WaitNavigate / waitNavEvent
    entry,      \* "Navigate" or "WaitNavigate"
    navErr,     \* what page.Navigate(urlstr).Do(ctx) returns
    opts,       \* the NavigateOptions, in order
    wait,       \* options.wait
    npc,        \* position of the caller
    lctx,       \* error of the listener scope
    sub,        \* the ListenTarget subscription: "no", "yes", "stopped"
    delivered,  \* events the callback has been invoked with
    missed,     \* events fired with no subscription to deliver them
    cbpc,       \* position of the callback: "idle", or "close" after cancel()
    closes,     \* executions of close(ch)
    panicked,   \* close of a closed channel
    navRet      \* what waitNavEvent (or Navigate) returned

raceVars == <<actions, hasSlot, waitIdx, cpc, idx, dctx, wg, epc, eret, sendq,
              r, raceRet, accepted, cancelFirst, leaked>>

wuVars == <<wuC, wuFinal, wpc, wuTimer, wuCalls, wuTicks, wuRet, wuTickLate,
           wuLateCall>>

irVars == <<irFailAt, ipc, irTimer, irCalls, irRet>>

navVars == <<entry, navErr, opts, wait, npc, lctx, sub, delivered, missed,
             cbpc, closes, panicked, navRet>>

vars == <<ctx, raceVars, wuVars, irVars, navVars>>

\* context.Canceled, context.DeadlineExceeded
CtxErrors == {"canceled", "deadline"}

\* ------------------------------------------------------------ WaitOneOf

\* What an Action does under the derived scope: mode "free" returns `out`
\* whenever it likes, mode "block" returns only once the scope is done;
\* out "ctx" is ctx.Err().
ActionKinds ==
    [mode : {"free"}, out : {"nil", "e1"}]
        \cup [mode : {"block"}, out : {"nil", "ctx"}]

NumActions == Cardinality(DOMAIN actions)

NoRet == [idx |-> -1, err |-> "none"]

\* the executor's select has the case <-ctx.Done()
ExecNoDoneCase == FALSE
ExecHasDoneCase == TRUE

\* go func(idx int) {...}(idx): the executor's own copy of the index
RetIdxCaptured(i) == idx
RetIdx(i) == i

\* wg.Add(1)
WgAddNone(w) == w
WgAdd(w) == w + 1

\* wg.Wait() returns when the counter is zero
WgWaitSkipped == TRUE
WgWaitDone == wg = 0

\* case <-ctx.Done(): return ctx.Err()
CoordDoneRet == dctx

\* if len(actions) == 0 { panic("actions cannot be empty") }
NoActionsUnchecked(n) == FALSE
NoActions(n) == n = 0

\* a return of the ActionFunc leaves the select for the deferred calls
CoordReturnSelectsAgain == "select"
CoordReturn == "defer_cancel"

\* *waitIdx = r.idx comes after the return of a non-nil r.err
SlotWrittenAnyway(err) == TRUE
SlotWritten(err) == err = "nil"

\* closing a Done channel wakes the goroutines parked on it
WakeExecs(e) ==
    [i \in DOMAIN e |->
        IF e[i] = "parked" /\ ExecHasDoneCase THEN "exit" ELSE e[i]]

WakeSendq(q) == IF ExecHasDoneCase THEN <<>> ELSE q

WakeCoord(p) == IF p = "parked" THEN "ctxdone" ELSE p

RaceFresh ==
    /\ idx = 0
    /\ dctx = "none"
    /\ wg = 0
    /\ epc = [i \in DOMAIN actions |-> "none"]
    /\ eret = [i \in DOMAIN actions |-> "pending"]
    /\ sendq = <<>>
    /\ r = NoRet
    /\ raceRet = "pending"
    /\ accepted = 0

RaceIdle ==
    /\ actions = <<>>
    /\ hasSlot = FALSE
    /\ waitIdx = -1
    /\ cpc = "idle"
    /\ RaceFresh
    /\ cancelFirst = FALSE
    /\ leaked = 0

RaceInit ==
    /\ \E n \in 0 .. MaxActions : actions \in [0 .. (n - 1) -> ActionKinds]
    /\ hasSlot \in BOOLEAN
    /\ waitIdx = -1
    /\ cpc = "new"
    /\ RaceFresh
    /\ cancelFirst = FALSE
    /\ leaked = 0

\* the most actions of a race whose progress is checked
MaxFairActions == 2

\* the races whose progress is checked are run with waitIdx == nil: the slot
\* is written by the caller's last step and decides no step of any goroutine
RaceInitFair ==
    /\ \E n \in 0 .. MaxFairActions : actions \in [0 .. (n - 1) -> ActionKinds]
    /\ hasSlot = FALSE
    /\ waitIdx = -1
    /\ cpc = "new"
    /\ RaceFresh
    /\ cancelFirst = FALSE
    /\ leaked = 0

\* WaitOneOf(waitIdx, actions...): panics on an empty list
Construct ==
    /\ cpc = "new"
    /\ cpc' = IF NoActions(NumActions) THEN "panic" ELSE "call"
    /\ UNCHANGED <<ctx, actions, hasSlot, waitIdx, idx, dctx, wg, epc, eret,
                   sendq, r, raceRet, accepted, cancelFirst, leaked>>
    /\ UNCHANGED <<wuVars, irVars, navVars>>

\* wg := &sync.WaitGroup{}; ctx, cancel := context.WithCancel(ctx); retC := make(chan ret)
Call ==
    /\ cpc = "call"
    /\ cpc' = "launch"
    /\ dctx' = ctx
    /\ wg' = 0
    /\ idx' = 0
    /\ UNCHANGED <<ctx, actions, hasSlot, waitIdx, epc, eret, sendq, r,
                   raceRet, accepted, cancelFirst, leaked>>
    /\ UNCHANGED <<wuVars, irVars, navVars>>

\* one iteration of the launch loop: wg.Add(1); go func(idx int) {...}(idx);
\* idx++, and the loop is left for the select when idx < len(actions) fails
Launch ==
    /\ cpc = "launch"
    /\ idx < NumActions
    /\ wg' = WgAdd(wg)
    /\ epc' = [epc EXCEPT ![idx] = "do"]
    /\ idx' = idx + 1
    /\ cpc' = IF idx' < NumActions THEN "launch" ELSE "select"
    /\ UNCHANGED <<ctx, actions, hasSlot, waitIdx, dctx, eret, sendq, r,
                   raceRet, accepted, cancelFirst, leaked>>
    /\ UNCHANGED <<wuVars, irVars, navVars>>

\* err := action.Do(ctx) returns
ActionReturn(i) ==
    /\ epc[i] = "do"
    /\ actions[i].mode = "block" => dctx # "none"
    /\ eret' = [eret EXCEPT ![i] =
                    IF actions[i].out = "ctx" THEN dctx ELSE actions[i].out]
    /\ epc' = [epc EXCEPT ![i] = "select"]
    /\ UNCHANGED <<ctx, actions, hasSlot, waitIdx, cpc, idx, dctx, wg, sendq,
                   r, raceRet, accepted, cancelFirst, leaked>>
    /\ UNCHANGED <<wuVars, irVars, navVars>>

\* the executor's select: case retC <- ret{idx, err}, a receiver is parked;
\* then the deferred wg.Done()
ExecSend(i) ==
    /\ epc[i] = "select"
    /\ cpc = "parked"
    /\ r' = [idx |-> RetIdx(i), err |-> eret[i]]
    /\ cpc' = "got"
    /\ accepted' = accepted + 1
    /\ wg' = wg - 1
    /\ epc' = [epc EXCEPT ![i] = "done"]
    /\ UNCHANGED <<ctx, actions, hasSlot, waitIdx, idx, dctx, eret, sendq,
                   raceRet, cancelFirst, leaked>>
    /\ UNCHANGED <<wuVars, irVars, navVars>>

\* the executor's select: case <-ctx.Done(); then the deferred wg.Done()
ExecDone(i) ==
    /\ epc[i] = "select"
    /\ ExecHasDoneCase
    /\ dctx # "none"
    /\ wg' = wg - 1
    /\ epc' = [epc EXCEPT ![i] = "done"]
    /\ UNCHANGED <<ctx, actions, hasSlot, waitIdx, cpc, idx, dctx, eret,
                   sendq, r, raceRet, accepted, cancelFirst, leaked>>
    /\ UNCHANGED <<wuVars, irVars, navVars>>

\* the executor's select: no case is ready, the goroutine parks
ExecPark(i) ==
    /\ epc[i] = "select"
    /\ cpc # "parked"
    /\ ~(ExecHasDoneCase /\ dctx # "none")
    /\ epc' = [epc EXCEPT ![i] = "parked"]
    /\ sendq' = Append(sendq, i)
    /\ UNCHANGED <<ctx, actions, hasSlot, waitIdx, cpc, idx, dctx, wg, eret,
                   r, raceRet, accepted, cancelFirst, leaked>>
    /\ UNCHANGED <<wuVars, irVars, navVars>>

\* a parked executor whose select has been completed for it (its value was
\* received, or the scope woke it) runs the deferred wg.Done()
ExecExit(i) ==
    /\ epc[i] = "exit"
    /\ wg' = wg - 1
    /\ epc' = [epc EXCEPT ![i] = "done"]
    /\ UNCHANGED <<ctx, actions, hasSlot, waitIdx, cpc, idx, dctx, eret, sendq,
                   r, raceRet, accepted, cancelFirst, leaked>>
    /\ UNCHANGED <<wuVars, irVars, navVars>>

\* the coordinator's select: case r := <-retC, a sender is parked
CoordRecv ==
    /\ cpc = "select"
    /\ sendq # <<>>
    /\ r' = [idx |-> RetIdx(Head(sendq)), err |-> eret[Head(sendq)]]
    /\ epc' = [epc EXCEPT ![Head(sendq)] = "exit"]
    /\ sendq' = Tail(sendq)
    /\ accepted' = accepted + 1
    /\ cpc' = "got"
    /\ UNCHANGED <<ctx, actions, hasSlot, waitIdx, idx, dctx, wg, eret,
                   raceRet, cancelFirst, leaked>>
    /\ UNCHANGED <<wuVars, irVars, navVars>>

\* the coordinator's select: case <-ctx.Done()
CoordDone ==
    /\ cpc = "select"
    /\ dctx # "none"
    /\ cpc' = "ctxdone"
    /\ UNCHANGED <<ctx, actions, hasSlot, waitIdx, idx, dctx, wg, epc, eret,
                   sendq, r, raceRet, accepted, cancelFirst, leaked>>
    /\ UNCHANGED <<wuVars, irVars, navVars>>

\* the coordinator's select: no case is ready, the goroutine parks
CoordPark ==
    /\ cpc = "select"
    /\ sendq = <<>>
    /\ dctx = "none"
    /\ cpc' = "parked"
    /\ UNCHANGED <<ctx, actions, hasSlot, waitIdx, idx, dctx, wg, epc, eret,
                   sendq, r, raceRet, accepted, cancelFirst, leaked>>
    /\ UNCHANGED <<wuVars, irVars, navVars>>

\* the body of case r := <-retC
CoordGot ==
    /\ cpc = "got"
    /\ raceRet' = IF r.err # "nil" THEN r.err ELSE "nil"
    /\ waitIdx' = IF hasSlot /\ SlotWritten(r.err) THEN r.idx ELSE waitIdx
    /\ cpc' = CoordReturn
    /\ UNCHANGED <<ctx, actions, hasSlot, idx, dctx, wg, epc, eret, sendq, r,
                   accepted, cancelFirst, leaked>>
    /\ UNCHANGED <<wuVars, irVars, navVars>>

\* the body of case <-ctx.Done()
CoordCtxDone ==
    /\ cpc = "ctxdone"
    /\ raceRet' = CoordDoneRet
    /\ cpc' = CoordReturn
    /\ UNCHANGED <<ctx, actions, hasSlot, waitIdx, idx, dctx, wg, epc, eret,
                   sendq, r, accepted, cancelFirst, leaked>>
    /\ UNCHANGED <<wuVars, irVars, navVars>>

\* defer cancel(): runs first on return
DeferCancel ==
    /\ cpc = "defer_cancel"
    /\ cpc' = "defer_wait"
    /\ IF dctx = "none"
       THEN /\ dctx' = "canceled"
            /\ epc' = WakeExecs(epc)
            /\ sendq' = WakeSendq(sendq)
       ELSE UNCHANGED <<dctx, epc, sendq>>
    /\ UNCHANGED <<ctx, actions, hasSlot, waitIdx, idx, wg, eret, r, raceRet,
                   accepted, cancelFirst, leaked>>
    /\ UNCHANGED <<wuVars, irVars, navVars>>

\* defer wg.Wait(): runs last, then the call returns
DeferWait ==
    /\ cpc = "defer_wait"
    /\ WgWaitDone
    /\ cpc' = "returned"
    /\ UNCHANGED <<ctx, actions, hasSlot, waitIdx, idx, dctx, wg, epc, eret,
                   sendq, r, raceRet, accepted, cancelFirst, leaked>>
    /\ UNCHANGED <<wuVars, irVars, navVars>>

LiveExecutors == {i \in DOMAIN epc : epc[i] \notin {"none", "done"}}

\* the caller runs the same Action again
RaceAgain ==
    /\ cpc = "returned"
    /\ leaked' = leaked + Cardinality(LiveExecutors)
    /\ cpc' = "call"
    /\ idx' = 0
    /\ dctx' = "none"
    /\ wg' = 0
    /\ epc' = [i \in DOMAIN actions |-> "none"]
    /\ eret' = [i \in DOMAIN actions |-> "pending"]
    /\ sendq' = <<>>
    /\ r' = NoRet
    /\ raceRet' = "pending"
    /\ accepted' = 0
    /\ cancelFirst' = (ctx # "none")
    /\ UNCHANGED <<ctx, actions, hasSlot, waitIdx>>
    /\ UNCHANGED <<wuVars, irVars, navVars>>

DerivedExists == cpc \notin {"new", "panic", "call"}

\* the caller's scope is cancelled or its deadline passes: its Done channel
\* is closed.  The derived scope, a child of it, is cancelled after that, and
\* the goroutines of the race run in between
RaceParentCancel ==
    /\ ctx = "none"
    /\ ctx' \in CtxErrors
    /\ cancelFirst' = (/\ cpc \notin {"returned", "panic"}
                       /\ \A i \in DOMAIN eret : eret[i] = "pending")
    /\ UNCHANGED <<actions, hasSlot, waitIdx, cpc, idx, dctx, wg, epc, eret,
                   sendq, r, raceRet, accepted, leaked>>
    /\ UNCHANGED <<wuVars, irVars, navVars>>

\* ctx, cancel := context.WithCancel(ctx): the cancellation of the caller's
\* scope reaches the derived scope, with the same error, unless cancel() has
\* ended it before; its Done channel is closed and the goroutines parked on
\* it are woken
RacePropagate ==
    /\ ctx # "none"
    /\ DerivedExists
    /\ dctx = "none"
    /\ dctx' = ctx
    /\ epc' = WakeExecs(epc)
    /\ sendq' = WakeSendq(sendq)
    /\ cpc' = WakeCoord(cpc)
    /\ UNCHANGED <<ctx, actions, hasSlot, waitIdx, idx, wg, eret, r, raceRet,
                   accepted, cancelFirst, leaked>>
    /\ UNCHANGED <<wuVars, irVars, navVars>>

RaceNext ==
    \/ Construct
    \/ Call
    \/ Launch
    \/ \E i \in DOMAIN actions : ActionReturn(i)
    \/ \E i \in DOMAIN actions : ExecSend(i)
    \/ \E i \in DOMAIN actions : ExecDone(i)
    \/ \E i \in DOMAIN actions : ExecPark(i)
    \/ \E i \in DOMAIN actions : ExecExit(i)
    \/ CoordRecv
    \/ CoordDone
    \/ CoordPark
    \/ CoordGot
    \/ CoordCtxDone
    \/ DeferCancel
    \/ DeferWait
    \/ RaceAgain
    \/ RaceParentCancel
    \/ RacePropagate

\* ------------------------------------------------------------ WaitUntil

\* the largest number of ErrContinueWait results before f's final one
MaxC == 3

\* counters of a loop that may run for ever stop counting past the bound
Count(n) == IF n > MaxC THEN n ELSE n + 1

\* f(ctx) at its n-th invocation
PredResult(n) ==
    IF wuFinal = "continue" \/ n <= wuC THEN "continue" ELSE wuFinal

\* if err == ErrContinueWait { continue }
IsContinueNever(err) == FALSE
IsContinueAnyErr(err) == err # "nil"
IsContinue(err) == err = "continue"

\* the loop's select has the case <-ctx.Done()
WuNoDoneCase == FALSE
WuHasDoneCase == TRUE

WuIdle ==
    /\ wuC = 0
    /\ wuFinal = "nil"
    /\ wpc = "idle"
    /\ wuTimer = "none"
    /\ wuCalls = 0
    /\ wuTicks = 0
    /\ wuRet = "pending"
    /\ wuTickLate = FALSE
    /\ wuLateCall = FALSE

WuInit ==
    /\ wuC \in 0 .. MaxC
    /\ wuFinal \in {"nil", "e1", "continue"}
    /\ wpc = "loop"
    /\ wuTimer = "none"
    /\ wuCalls = 0
    /\ wuTicks = 0
    /\ wuRet = "pending"
    /\ wuTickLate = FALSE
    /\ wuLateCall = FALSE

\* tm := time.NewTimer(50 * time.Millisecond)
WuNewTimer ==
    /\ wpc = "loop"
    /\ wuTimer' = "armed"
    /\ wpc' = "select"
    /\ UNCHANGED <<ctx, wuC, wuFinal, wuCalls, wuTicks, wuRet, wuTickLate,
                   wuLateCall>>
    /\ UNCHANGED <<raceVars, irVars, navVars>>

\* the timer expires and sends on tm.C; a loop parked in the select takes it
WuTimerFire ==
    /\ wuTimer = "armed"
    /\ wuTimer' = "fired"
    /\ IF wpc = "parked"
       THEN wpc' = "call" /\ wuTicks' = Count(wuTicks)
       ELSE UNCHANGED <<wpc, wuTicks>>
    /\ UNCHANGED <<ctx, wuC, wuFinal, wuCalls, wuRet, wuTickLate, wuLateCall>>
    /\ UNCHANGED <<raceVars, irVars, navVars>>

\* select: case <-ctx.Done(): tm.Stop(); return ctx.Err()
WuSelectDone ==
    /\ wpc = "select"
    /\ WuHasDoneCase
    /\ ctx # "none"
    /\ wuTimer' = "none"
    /\ wuRet' = ctx
    /\ wpc' = "returned"
    /\ UNCHANGED <<ctx, wuC, wuFinal, wuCalls, wuTicks, wuTickLate, wuLateCall>>
    /\ UNCHANGED <<raceVars, irVars, navVars>>

\* select: case <-tm.C
WuSelectTick ==
    /\ wpc = "select"
    /\ wuTimer = "fired"
    /\ wuTicks' = Count(wuTicks)
    /\ wuTickLate' = (ctx # "none")
    /\ wpc' = "call"
    /\ UNCHANGED <<ctx, wuC, wuFinal, wuTimer, wuCalls, wuRet, wuLateCall>>
    /\ UNCHANGED <<raceVars, irVars, navVars>>

\* select: no case is ready, the loop parks
WuPark ==
    /\ wpc = "select"
    /\ wuTimer = "armed"
    /\ ~(WuHasDoneCase /\ ctx # "none")
    /\ wpc' = "parked"
    /\ UNCHANGED <<ctx, wuC, wuFinal, wuTimer, wuCalls, wuTicks, wuRet,
                   wuTickLate, wuLateCall>>
    /\ UNCHANGED <<raceVars, irVars, navVars>>

\* the parked loop was woken by the scope: tm.Stop(); return ctx.Err()
WuWokenDone ==
    /\ wpc = "woken"
    /\ wuTimer' = "none"
    /\ wuRet' = ctx
    /\ wpc' = "returned"
    /\ UNCHANGED <<ctx, wuC, wuFinal, wuCalls, wuTicks, wuTickLate, wuLateCall>>
    /\ UNCHANGED <<raceVars, irVars, navVars>>

\* err := f(ctx); if err == ErrContinueWait { continue }; return err
WuCallF ==
    /\ wpc = "call"
    /\ wuCalls' = Count(wuCalls)
    /\ IF IsContinue(PredResult(wuCalls + 1))
       THEN wpc' = "loop" /\ wuRet' = wuRet
       ELSE wpc' = "returned" /\ wuRet' = PredResult(wuCalls + 1)
    /\ wuLateCall' = (wuLateCall \/ wuTickLate)
    /\ UNCHANGED <<ctx, wuC, wuFinal, wuTimer, wuTicks, wuTickLate>>
    /\ UNCHANGED <<raceVars, irVars, navVars>>

\* the caller's scope is cancelled or its deadline passes
WuCancel ==
    /\ ctx = "none"
    /\ ctx' \in CtxErrors
    /\ wpc' = IF wpc = "parked" /\ WuHasDoneCase THEN "woken" ELSE wpc
    /\ UNCHANGED <<wuC, wuFinal, wuTimer, wuCalls, wuTicks, wuRet, wuTickLate,
                   wuLateCall>>
    /\ UNCHANGED <<raceVars, irVars, navVars>>

WuNext ==
    \/ WuNewTimer
    \/ WuTimerFire
    \/ WuSelectDone
    \/ WuSelectTick
    \/ WuPark
    \/ WuWokenDone
    \/ WuCallF
    \/ WuCancel

\* ---------------------------------------------------------- IntervalRun

\* the latest invocation at which the action fails
MaxFailAt == 3

IrCount(n) == IF n > MaxFailAt THEN n ELSE n + 1

\* action.Do(ctx) at its n-th invocation
ActionResult(n) == IF n = irFailAt THEN "e1" ELSE "nil"

\* if err := action.Do(ctx); err != nil { return err }
ActionFailedInverted(err) == err = "nil"
ActionFailed(err) == err # "nil"

IrIdle ==
    /\ irFailAt = 0
    /\ ipc = "idle"
    /\ irTimer = "none"
    /\ irCalls = 0
    /\ irRet = "pending"

IrInit ==
    /\ irFailAt \in 0 .. MaxFailAt
    /\ ipc = "start"
    /\ irTimer = "none"
    /\ irCalls = 0
    /\ irRet = "pending"

\* tm := time.NewTimer(interval), before the loop
IrNewTimer ==
    /\ ipc = "start"
    /\ irTimer' = "armed"
    /\ ipc' = "select"
    /\ UNCHANGED <<ctx, irFailAt, irCalls, irRet>>
    /\ UNCHANGED <<raceVars, wuVars, navVars>>

\* the timer expires and sends on tm.C; a loop parked in the select takes it
IrTimerFire ==
    /\ irTimer = "armed"
    /\ irTimer' = "fired"
    /\ ipc' = IF ipc = "parked" THEN "call" ELSE ipc
    /\ UNCHANGED <<ctx, irFailAt, irCalls, irRet>>
    /\ UNCHANGED <<raceVars, wuVars, navVars>>

IrDoneRetNil == "nil"

\* return ctx.Err()
IrDoneRet == ctx

\* select: case <-ctx.Done(): tm.Stop(); return ctx.Err()
IrSelectDone ==
    /\ ipc = "select"
    /\ ctx # "none"
    /\ irTimer' = "none"
    /\ irRet' = IrDoneRet
    /\ ipc' = "returned"
    /\ UNCHANGED <<ctx, irFailAt, irCalls>>
    /\ UNCHANGED <<raceVars, wuVars, navVars>>

\* select: case <-tm.C
IrSelectTick ==
    /\ ipc = "select"
    /\ irTimer = "fired"
    /\ ipc' = "call"
    /\ UNCHANGED <<ctx, irFailAt, irTimer, irCalls, irRet>>
    /\ UNCHANGED <<raceVars, wuVars, navVars>>

\* select: no case is ready, the loop parks
IrPark ==
    /\ ipc = "select"
    /\ irTimer = "armed"
    /\ ctx = "none"
    /\ ipc' = "parked"
    /\ UNCHANGED <<ctx, irFailAt, irTimer, irCalls, irRet>>
    /\ UNCHANGED <<raceVars, wuVars, navVars>>

\* the parked loop was woken by the scope: tm.Stop(); return ctx.Err()
IrWokenDone ==
    /\ ipc = "woken"
    /\ irTimer' = "none"
    /\ irRet' = IrDoneRet
    /\ ipc' = "returned"
    /\ UNCHANGED <<ctx, irFailAt, irCalls>>
    /\ UNCHANGED <<raceVars, wuVars, navVars>>

\* if err := action.Do(ctx); err != nil { return err }; tm = time.NewTimer(interval)
IrCallAction ==
    /\ ipc = "call"
    /\ irCalls' = IrCount(irCalls)
    /\ IF ActionFailed(ActionResult(irCalls + 1))
       THEN /\ ipc' = "returned"
            /\ irRet' = ActionResult(irCalls + 1)
            /\ irTimer' = irTimer
       ELSE /\ ipc' = "select"
            /\ irRet' = irRet
            /\ irTimer' = "armed"
    /\ UNCHANGED <<ctx, irFailAt>>
    /\ UNCHANGED <<raceVars, wuVars, navVars>>

\* the caller's scope is cancelled or its deadline passes
IrCancel ==
    /\ ctx = "none"
    /\ ctx' \in CtxErrors
    /\ ipc' = IF ipc = "parked" THEN "woken" ELSE ipc
    /\ UNCHANGED <<irFailAt, irTimer, irCalls, irRet>>
    /\ UNCHANGED <<raceVars, wuVars, navVars>>

IrNext ==
    \/ IrNewTimer
    \/ IrTimerFire
    \/ IrSelectDone
    \/ IrSelectTick
    \/ IrPark
    \/ IrWokenDone
    \/ IrCallAction
    \/ IrCancel

\* ------------------------------------- Navigate, WaitNavigate, waitNavEvent

\* the longest list of NavigateOptions, the most events the target fires
MaxOpts == 2
MaxEvents == 3

Events == {"LoadEventFired", "FrameNavigated", "Other"}

\* NavigateNoWait, NavigateWaitEventLoadEventFired,
\* NavigateWaitEventFrameNavigated, and NavigateWaitFunc(f) for one f
Options == {"NoWait", "Load", "Frame", "Func"}

\* the wait func set by NavigateWaitEventLoadEventFired, applied to ev
LoadEventFiredAny(ev) == "nil"
LoadEventFired(ev) == IF ev = "LoadEventFired" THEN "nil" ELSE "ErrNotMatch"

\* the wait func set by NavigateWaitEventFrameNavigated, applied to ev
FrameNavigated(ev) == IF ev = "FrameNavigated" THEN "nil" ELSE "ErrNotMatch"

\* a wait func given to NavigateWaitFunc: it matches the other events, fails
\* with an error of its own on a load event and does not match the rest
UserFunc(ev) ==
    CASE ev = "Other" -> "nil"
      [] ev = "LoadEventFired" -> "e1"
      [] OTHER -> "ErrNotMatch"

\* options.wait(ctx, ev)
WaitFunc(w, ev) ==
    CASE w = "Load" -> LoadEventFired(ev)
      [] w = "Frame" -> FrameNavigated(ev)
      [] w = "Func" -> UserFunc(ev)

ApplyOptionKeep(o, w) == IF o = "NoWait" THEN w ELSE o

\* o(options): what an option leaves in options.wait
ApplyOption(o, w) == IF o = "NoWait" THEN "nil" ELSE o

\* NavigateWaitEventLoadEventFired(options); for _, o := range opts { o(options) }
RECURSIVE ApplyOptions(_, _)
ApplyOptions(os, w) ==
    IF os = <<>> THEN w ELSE ApplyOptions(Tail(os), ApplyOption(Head(os), w))

OptionLists == UNION {[1 .. n -> Options] : n \in 0 .. MaxOpts}

NavIdle ==
    /\ entry = "WaitNavigate"
    /\ navErr = "nil"
    /\ opts = <<>>
    /\ wait = "unset"
    /\ npc = "idle"
    /\ lctx = "none"
    /\ sub = "no"
    /\ delivered = <<>>
    /\ missed = <<>>
    /\ cbpc = "idle"
    /\ closes = 0
    /\ panicked = FALSE
    /\ navRet = "pending"

NavInit ==
    /\ entry \in {"Navigate", "WaitNavigate"}
    /\ navErr \in {"nil", "e1"}
    /\ opts \in OptionLists
    /\ wait = "unset"
    /\ npc = "start"
    /\ lctx = "none"
    /\ sub = "no"
    /\ delivered = <<>>
    /\ missed = <<>>
    /\ cbpc = "idle"
    /\ closes = 0
    /\ panicked = FALSE
    /\ navRet = "pending"

\* Navigate: page.Navigate(urlstr).Do(ctx), returned when it fails;
\* WaitNavigate goes straight to waitNavEvent
NavStart ==
    /\ npc = "start"
    /\ ~panicked
    /\ IF entry = "Navigate" /\ navErr # "nil"
       THEN npc' = "returned" /\ navRet' = navErr
       ELSE npc' = "options" /\ navRet' = navRet
    /\ UNCHANGED <<ctx, entry, navErr, opts, wait, lctx, sub, delivered,
                   missed, closes, panicked>>
    /\ UNCHANGED <<raceVars, wuVars, irVars>>
    /\ UNCHANGED cbpc

\* waitNavEvent: the options are applied; with no wait func it returns nil
NavOptions ==
    /\ npc = "options"
    /\ ~panicked
    /\ wait' = ApplyOptions(opts, "Load")
    /\ IF wait' = "nil"
       THEN npc' = "returned" /\ navRet' = "nil"
       ELSE npc' = "listen" /\ navRet' = navRet
    /\ UNCHANGED <<ctx, entry, navErr, opts, lctx, sub, delivered, missed,
                   closes, panicked>>
    /\ UNCHANGED <<raceVars, wuVars, irVars>>
    /\ UNCHANGED cbpc

\* ch := make(chan struct{}); lctx, cancel := context.WithCancel(ctx);
\* ListenTarget(lctx, func(ev) {...})
NavListen ==
    /\ npc = "listen"
    /\ ~panicked
    /\ lctx' = ctx
    /\ sub' = "yes"
    /\ npc' = "select"
    /\ UNCHANGED <<ctx, entry, navErr, opts, wait, delivered, missed, closes,
                   panicked, navRet>>
    /\ UNCHANGED <<raceVars, wuVars, irVars>>
    /\ UNCHANGED cbpc

\* select: case <-ch: return nil
NavSelectCh ==
    /\ npc = "select"
    /\ ~panicked
    /\ closes > 0
    /\ npc' = "returned"
    /\ navRet' = "nil"
    /\ UNCHANGED <<ctx, entry, navErr, opts, wait, lctx, sub, delivered,
                   missed, closes, panicked>>
    /\ UNCHANGED <<raceVars, wuVars, irVars>>
    /\ UNCHANGED cbpc

NavDoneRetNil == "nil"

\* return ctx.Err()
NavDoneRet == ctx

\* select: case <-ctx.Done(): return ctx.Err()
NavSelectDone ==
    /\ npc = "select"
    /\ ~panicked
    /\ ctx # "none"
    /\ npc' = "returned"
    /\ navRet' = NavDoneRet
    /\ UNCHANGED <<ctx, entry, navErr, opts, wait, lctx, sub, delivered,
                   missed, closes, panicked>>
    /\ UNCHANGED <<raceVars, wuVars, irVars>>
    /\ UNCHANGED cbpc

\* select: no case is ready, the caller parks
NavPark ==
    /\ npc = "select"
    /\ ~panicked
    /\ closes = 0
    /\ ctx = "none"
    /\ npc' = "parked"
    /\ UNCHANGED <<ctx, entry, navErr, opts, wait, lctx, sub, delivered,
                   missed, closes, panicked, navRet>>
    /\ UNCHANGED <<raceVars, wuVars, irVars>>
    /\ UNCHANGED cbpc

\* the parked caller was woken by close(ch): return nil
NavWokenCh ==
    /\ npc = "woken_ch"
    /\ ~panicked
    /\ npc' = "returned"
    /\ navRet' = "nil"
    /\ UNCHANGED <<ctx, entry, navErr, opts, wait, lctx, sub, delivered,
                   missed, closes, panicked>>
    /\ UNCHANGED <<raceVars, wuVars, irVars>>
    /\ UNCHANGED cbpc

\* the parked caller was woken by the scope: return ctx.Err()
NavWokenDone ==
    /\ npc = "woken_done"
    /\ ~panicked
    /\ npc' = "returned"
    /\ navRet' = NavDoneRet
    /\ UNCHANGED <<ctx, entry, navErr, opts, wait, lctx, sub, delivered,
                   missed, closes, panicked>>
    /\ UNCHANGED <<raceVars, wuVars, irVars>>
    /\ UNCHANGED cbpc

EventsFired == Len(delivered) + Len(missed)

\* ListenTarget(lctx, fn) invokes fn once per event from the registration on;
\* once lctx is done it stops doing so, eventually
Subscribed == sub = "yes"

CallbackMatchedUnlessNotMatch(err) == err # "ErrNotMatch"

\* the callback's test: err == nil
CallbackMatched(err) == err = "nil"

\* cancel() of the listener scope; cancelling a done scope changes nothing
CancelListener(l) == IF l = "none" THEN "canceled" ELSE l

\* The target fires an event.  ListenTarget invokes the callback with it while
\* the subscription lasts, one invocation at a time:
\*   if err := options.wait(ctx, ev); err == nil { cancel(); close(ch) }
\* This step is the callback up to the return of cancel(); close(ch) is a
\* step of its own, so the caller, the caller's scope and ListenTarget can
\* act in between.
NavEvent(ev) ==
    /\ ~panicked
    /\ EventsFired < MaxEvents
    /\ IF Subscribed
       THEN /\ cbpc = "idle"
            /\ delivered' = Append(delivered, ev)
            /\ missed' = missed
            /\ IF CallbackMatched(WaitFunc(wait, ev))
               THEN /\ lctx' = CancelListener(lctx)
                    /\ cbpc' = "close"
               ELSE UNCHANGED <<lctx, cbpc>>
       ELSE /\ missed' = Append(missed, ev)
            /\ UNCHANGED <<delivered, lctx, cbpc>>
    /\ UNCHANGED <<ctx, entry, navErr, opts, wait, npc, sub, closes, panicked,
                   navRet>>
    /\ UNCHANGED <<raceVars, wuVars, irVars>>

\* the callback's close(ch): it wakes the parked caller, and it panics when ch
\* is closed already
NavClose ==
    /\ ~panicked
    /\ cbpc = "close"
    /\ cbpc' = "idle"
    /\ closes' = closes + 1
    /\ panicked' = (closes > 0)
    /\ npc' = IF npc = "parked" THEN "woken_ch" ELSE npc
    /\ UNCHANGED <<ctx, entry, navErr, opts, wait, lctx, sub, delivered,
                   missed, navRet>>
    /\ UNCHANGED <<raceVars, wuVars, irVars>>

\* ListenTarget notices that its scope is done and drops the callback
NavSubStop ==
    /\ ~panicked
    /\ Subscribed
    /\ lctx # "none"
    /\ sub' = "stopped"
    /\ UNCHANGED <<ctx, entry, navErr, opts, wait, npc, lctx, delivered,
                   missed, closes, panicked, navRet>>
    /\ UNCHANGED <<raceVars, wuVars, irVars>>
    /\ UNCHANGED cbpc

\* the caller's scope is cancelled or its deadline passes: its Done channel
\* is closed, which wakes the parked caller.  The listener scope, a child of
\* it, is cancelled after that
NavCancel ==
    /\ ~panicked
    /\ ctx = "none"
    /\ ctx' \in CtxErrors
    /\ npc' = IF npc = "parked" THEN "woken_done" ELSE npc
    /\ UNCHANGED <<entry, navErr, opts, wait, lctx, sub, delivered, missed,
                   closes, panicked, navRet>>
    /\ UNCHANGED <<raceVars, wuVars, irVars>>
    /\ UNCHANGED cbpc

\* lctx, cancel := context.WithCancel(ctx): the cancellation of the caller's
\* scope reaches the listener scope, with the same error, unless the callback
\* has cancelled it before
NavPropagate ==
    /\ ~panicked
    /\ ctx # "none"
    /\ sub # "no"
    /\ lctx = "none"
    /\ lctx' = ctx
    /\ UNCHANGED <<ctx, entry, navErr, opts, wait, npc, sub, delivered, missed,
                   closes, panicked, navRet>>
    /\ UNCHANGED <<raceVars, wuVars, irVars>>
    /\ UNCHANGED cbpc

NavNext ==
    \/ NavStart
    \/ NavOptions
    \/ NavListen
    \/ NavSelectCh
    \/ NavSelectDone
    \/ NavPark
    \/ NavWokenCh
    \/ NavWokenDone
    \/ \E ev \in Events : NavEvent(ev)
    \/ NavClose
    \/ NavSubStop
    \/ NavCancel
    \/ NavPropagate

\* ------------------------------------------------------- specifications

InitRace == ctx = "none" /\ RaceInit /\ WuIdle /\ IrIdle /\ NavIdle

SpecRace == InitRace /\ [][RaceNext]_vars

InitRaceFair == ctx = "none" /\ RaceInitFair /\ WuIdle /\ IrIdle /\ NavIdle

\* one step of the caller's goroutine inside the ActionFunc
CoordStep ==
    \/ Launch
    \/ CoordRecv
    \/ CoordDone
    \/ CoordPark
    \/ CoordGot
    \/ CoordCtxDone
    \/ DeferCancel
    \/ DeferWait

\* one step of executor i after its action has returned
ExecStep(i) ==
    /\ i \in DOMAIN actions
    /\ ExecSend(i) \/ ExecDone(i) \/ ExecPark(i) \/ ExecExit(i)

\* action i returns, its scope being done
ActionReturnCancelled(i) ==
    /\ i \in DOMAIN actions
    /\ dctx # "none"
    /\ ActionReturn(i)

\* The runtime runs every goroutine that can run, the cancellation of a scope
\* reaches its children, and every action returns once its scope is cancelled.  Whether the caller runs the Action, runs it
\* again or cancels its scope is up to the caller, and an action need not
\* return while its scope is live.
SpecRaceFair ==
    /\ InitRaceFair
    /\ [][RaceNext]_vars
    /\ WF_vars(CoordStep)
    /\ WF_vars(RacePropagate)
    /\ \A i \in 0 .. (MaxFairActions - 1) : WF_vars(ExecStep(i))
    /\ \A i \in 0 .. (MaxFairActions - 1) : WF_vars(ActionReturnCancelled(i))

InitWaitUntil == ctx = "none" /\ RaceIdle /\ WuInit /\ IrIdle /\ NavIdle

SpecWaitUntil == InitWaitUntil /\ [][WuNext]_vars

\* The runtime runs every goroutine that can run and expires every armed
\* timer; a select with several ready cases picks among them uniformly at
\* random, so a case that is ready again and again is eventually picked.
SpecWaitUntilFair ==
    /\ InitWaitUntil
    /\ [][WuNext]_vars
    /\ WF_vars(WuNewTimer)
    /\ WF_vars(WuTimerFire)
    /\ SF_vars(WuSelectDone)
    /\ WF_vars(WuPark)
    /\ WF_vars(WuWokenDone)
    /\ WF_vars(WuCallF)

InitIntervalRun == ctx = "none" /\ RaceIdle /\ WuIdle /\ IrInit /\ NavIdle

SpecIntervalRun == InitIntervalRun /\ [][IrNext]_vars

InitNav == ctx = "none" /\ RaceIdle /\ WuIdle /\ IrIdle /\ NavInit

SpecNav == InitNav /\ [][NavNext]_vars

\* --------------------------------------------------------------- claims

\* C1: in waitNavEvent the callback signals completion (cancel(); close(ch))
\* at most once per wait, whatever events are delivered, also when the
\* subscription stops only eventually after the listener scope is cancelled:
\* close(ch) is never executed a second time.
NavSignalsAtMostOnce == closes <= 1

\* C2: when the caller's scope is cancelled before any action of the race has
\* finished, no outcome is handed over on retC afterwards and the race returns
\* the scope's error, whatever the actions return after the cancellation and
\* however the goroutines interleave.
RaceCancelFirst ==
    cancelFirst =>
        /\ accepted = 0
        /\ (cpc = "returned" => raceRet = ctx)

\* action k returns nil of its own accord, every other action returns only
\* once the derived scope is done
SoleFinisher(k, out) ==
    /\ actions[k] = [mode |-> "free", out |-> out]
    /\ \A j \in DOMAIN actions \ {k} : actions[j].mode = "block"

\* C3: when action k succeeds, the others do not return before they observe
\* the cancellation and the caller's scope is not cancelled, the race returns
\* nil and *waitIdx (when waitIdx is not nil) is k.
RaceWinnerIndex ==
    \A k \in DOMAIN actions :
        (cpc = "returned" /\ ctx = "none" /\ SoleFinisher(k, "nil")) =>
            /\ raceRet = "nil"
            /\ waitIdx = IF hasSlot THEN k ELSE -1

RaceWinnerIndexWitness ==
    /\ cpc = "returned"
    /\ ctx = "none"
    /\ NumActions = 3
    /\ SoleFinisher(1, "nil")
    /\ hasSlot
    /\ waitIdx = 1
    /\ actions[2].out = "nil"

\* C4: when exactly one action fails, the others block until their scope is
\* cancelled and the caller's scope is not cancelled, the race returns that
\* failure and every other action has returned from observing the cancellation
\* by the time the race returns.
RaceSoleFailure ==
    \A k \in DOMAIN actions :
        (cpc = "returned" /\ ctx = "none" /\ SoleFinisher(k, "e1")) =>
            /\ raceRet = "e1"
            /\ \A j \in DOMAIN actions \ {k} :
                eret[j] # "pending" /\ dctx # "none"

RaceSoleFailureWitness ==
    /\ cpc = "returned"
    /\ ctx = "none"
    /\ NumActions = 3
    /\ SoleFinisher(0, "e1")
    /\ raceRet = "e1"
    /\ eret[1] = "canceled"
    /\ eret[2] # "pending"

\* C5: when a race has returned every executor it launched has terminated, and
\* over any number of races in sequence no executor is left over from a race
\* that has returned.
RaceNoLiveExecutor ==
    /\ cpc = "returned" => \A i \in DOMAIN actions : epc[i] = "done"
    /\ leaked = 0

\* a second race has returned, on the caller's cancellation, after a first one
\* that was won
RaceNoLiveExecutorWitness ==
    /\ cpc = "returned"
    /\ NumActions >= 2
    /\ waitIdx >= 0
    /\ raceRet \in CtxErrors
    /\ \A i \in DOMAIN actions : epc[i] = "done"

\* C6: with the scope not cancelled and f returning ErrContinueWait wuC times
\* and then nil, WaitUntil invokes f exactly wuC + 1 times, each invocation
\* after one receive from tm.C, and returns nil.
WuContinuationLaw ==
    (wuFinal = "nil" /\ ctx = "none" /\ wpc # "idle") =>
        /\ wuTicks = wuCalls + (IF wpc = "call" THEN 1 ELSE 0)
        /\ wpc # "returned" => wuCalls <= wuC
        /\ wpc = "returned" =>
            (wuCalls = wuC + 1 /\ wuTicks = wuC + 1 /\ wuRet = "nil")

WuContinuationLawWitness ==
    /\ wuFinal = "nil"
    /\ ctx = "none"
    /\ wuC = 2
    /\ wpc = "returned"
    /\ wuCalls = 3
    /\ wuRet = "nil"

\* C7: when the scope is cancelled while f returns ErrContinueWait on every
\* invocation, the loop eventually returns, and returns the scope's error.
WuCancelTerminates ==
    (ctx # "none" /\ wuFinal = "continue") ~> (wpc = "returned" /\ wuRet = ctx)

WuCancelTerminatesWitness ==
    /\ wuFinal = "continue"
    /\ wpc = "returned"
    /\ wuRet = "canceled"
    /\ wuCalls >= 2

\* C8: f is never invoked for a tick taken when the scope was cancelled
\* already: the loop returns the scope's error instead.
WuNoCallOnceCancelled == ~wuLateCall

\* C9: with the scope not cancelled and the action failing at its irFailAt-th
\* invocation for the first time, IntervalRun invokes it exactly irFailAt
\* times and returns that failure.
IrFailurePropagates ==
    (irFailAt >= 1 /\ ctx = "none" /\ ipc # "idle") =>
        /\ ipc # "returned" => irCalls < irFailAt
        /\ ipc = "returned" => (irCalls = irFailAt /\ irRet = "e1")

IrFailurePropagatesWitness ==
    /\ irFailAt = 3
    /\ ctx = "none"
    /\ ipc = "returned"
    /\ irCalls = 3
    /\ irRet = "e1"

\* the event type a type-matching wait func matches
MatchedType(w) == IF w = "Load" THEN "LoadEventFired" ELSE "FrameNavigated"

Matches(w) ==
    Cardinality({i \in 1 .. Len(delivered) : delivered[i] = MatchedType(w)})

\* closes of ch that a running callback is about to execute
ClosePending == IF cbpc = "close" THEN 1 ELSE 0

\* C10: with a wait func that matches only events of type X and the
\* subscription registered, the waiter stays blocked while only other events
\* are delivered, and the delivery of an X event signals completion exactly
\* once (the callback cancels, then closes ch), after which the waiter returns
\* nil; with the scope not cancelled it never returns before an X event.
NavMatchOnlyAfterX ==
    \A w \in {"Load", "Frame"} :
        (wait = w /\ sub # "no") =>
            /\ Matches(w) = 0 =>
                   (closes = 0 /\ ClosePending = 0 /\ navRet # "nil")
            /\ Matches(w) = 1 => (closes + ClosePending = 1 /\ ~panicked)
            /\ (navRet = "nil") => closes >= 1
            /\ (npc = "returned" /\ ctx = "none") =>
                (Matches(w) >= 1 /\ navRet = "nil")

NavMatchOnlyAfterXWitness ==
    /\ wait = "Load"
    /\ delivered = <<"Other", "LoadEventFired">>
    /\ ctx = "none"
    /\ closes = 1
    /\ npc = "returned"
    /\ navRet = "nil"

\* C11: a waitNavEvent whose option list ends with NavigateNoWait has no wait
\* func left: it returns nil at once, with no listener scope derived, no
\* subscription registered and no event delivered, whether or not the scope
\* is cancelled and whatever events the target fires
NavNoWaitReturnsAtOnce ==
    (wait # "unset" /\ opts # <<>> /\ opts[Len(opts)] = "NoWait") =>
        /\ wait = "nil"
        /\ npc = "returned"
        /\ navRet = "nil"
        /\ lctx = "none"
        /\ sub = "no"
        /\ delivered = <<>>
        /\ closes = 0

NavNoWaitReturnsAtOnceWitness ==
    /\ opts = <<"Frame", "NoWait">>
    /\ ctx # "none"
    /\ Len(missed) = MaxEvents
    /\ npc = "returned"
    /\ navRet = "nil"
    /\ sub = "no"

\* ev is an event the configured wait func accepts
Qualifies(ev) == wait \in {"Load", "Frame", "Func"} /\ WaitFunc(wait, ev) = "nil"

\* C12: the subscription is registered only after Navigate has issued its
\* navigation command, and events fired before the registration are not
\* delivered.  While no qualifying event has been delivered to the callback
\* (the qualifying ones were fired too early) waitNavEvent does not return
\* nil: it returns only once the caller's scope is cancelled, and then with
\* the scope's error
NavMissedEventBlocks ==
    /\ (sub # "no") => npc \in {"select", "parked", "woken_ch", "woken_done",
                                "returned"}
    /\ (sub # "no" /\ \A i \in DOMAIN delivered : ~Qualifies(delivered[i])) =>
           /\ navRet # "nil"
           /\ (npc = "returned") => (ctx # "none" /\ navRet = ctx)

NavMissedEventBlocksWitness ==
    /\ entry = "Navigate"
    /\ wait = "Load"
    /\ missed = <<"LoadEventFired">>
    /\ delivered = <<"Other", "FrameNavigated">>
    /\ sub = "yes"
    /\ ctx = "canceled"
    /\ npc = "returned"
    /\ navRet = "canceled"

\* C13: WaitUntil never returns ErrContinueWait.  What it returns is either
\* the scope's error, f having continued on every invocation made, or the
\* first outcome of f other than ErrContinueWait, unchanged; f is not invoked
\* again after that outcome
WuReturnsFirstOutcome ==
    /\ (wuFinal # "continue") => wuCalls <= wuC + 1
    /\ (wpc = "returned") =>
           /\ wuRet # "continue"
           /\ \/ /\ ctx # "none"
                 /\ wuRet = ctx
                 /\ \A n \in 1 .. wuCalls : PredResult(n) = "continue"
              \/ /\ wuFinal # "continue"
                 /\ wuRet = wuFinal
                 /\ wuCalls = wuC + 1
                 /\ \A n \in 1 .. wuC : PredResult(n) = "continue"

WuReturnsFirstOutcomeWitness ==
    /\ wuFinal = "e1"
    /\ wuC = 2
    /\ wuCalls = 3
    /\ wpc = "returned"
    /\ wuRet = "e1"

\* C14: in a race at most one outcome is handed over on retC and accepted by
\* the caller; when the race has returned every executor has finished, so each
\* of the others has abandoned its send
RaceSingleHandoff ==
    /\ accepted <= 1
    /\ (accepted = 1) => (r.idx \in DOMAIN actions /\ r.err = eret[r.idx])
    /\ (accepted = 0) => (r = NoRet)
    /\ (cpc = "returned") => \A i \in DOMAIN actions : epc[i] = "done"

RaceSingleHandoffWitness ==
    /\ NumActions = MaxActions
    /\ \A i \in DOMAIN actions : actions[i].mode = "free"
    /\ \A i \in DOMAIN actions : eret[i] \in {"nil", "e1"} /\ epc[i] = "done"
    /\ ctx = "none"
    /\ accepted = 1
    /\ r.idx = 1
    /\ cpc = "returned"

\* C15: a step changes the output slot only when it is the caller's return of
\* nil from the branch that received r, with a slot supplied, and it stores
\* r.idx; this happens at most once per race (the race had not returned yet),
\* and a race that returns an error leaves in the slot what it held before
RaceSlotWrittenOnSuccess ==
    [][(waitIdx' # waitIdx) =>
           /\ cpc = "got"
           /\ hasSlot
           /\ r.err = "nil"
           /\ raceRet = "pending"
           /\ raceRet' = "nil"
           /\ waitIdx' = r.idx]_vars

RaceSlotWrittenOnSuccessWitness ==
    /\ hasSlot
    /\ cpc = "returned"
    /\ raceRet = "e1"
    /\ r.idx = 0
    /\ waitIdx = 2

\* C16: IntervalRun never returns nil: a step that returns yields the action's
\* error, at the invocation that failed, or the scope's error; and the step
\* that ends an invocation which succeeded arms the next timer and goes back
\* to the select instead of returning
IrNeverReturnsNil ==
    [][/\ (ipc' = "returned") =>
              /\ irRet' # "nil"
              /\ \/ irRet' = "e1" /\ irCalls' = irFailAt
                 \/ ctx' # "none" /\ irRet' = ctx'
       /\ (ipc = "call" /\ ipc' # "call" /\ ActionResult(irCalls + 1) = "nil") =>
              (ipc' = "select" /\ irTimer' = "armed" /\ irRet' = "pending")]_vars

IrNeverReturnsNilWitness ==
    /\ irFailAt = 0
    /\ irCalls > MaxFailAt
    /\ ipc = "returned"
    /\ ctx = "deadline"
    /\ irRet = "deadline"

\* C17: WaitOneOf given no actions panics when the Action is constructed: the
\* Action is never returned, so no race over an empty set of actions is ever
\* run (no derived scope, no executor, no select, no return value)
RaceNeverEmpty ==
    (NumActions = 0) =>
        /\ cpc \in {"new", "panic"}
        /\ dctx = "none"
        /\ wg = 0
        /\ raceRet = "pending"

RaceNeverEmptyWitness ==
    /\ NumActions = 0
    /\ cpc = "panic"
    /\ ctx # "none"

\* the caller is inside the ActionFunc, its derived scope made
RaceInProgress ==
    cpc \in {"launch", "select", "parked", "got", "ctxdone", "defer_cancel",
             "defer_wait"}

\* C18: provided every action returns once its scope is cancelled, a race in
\* which an action has returned or whose scope is cancelled eventually
\* returns, and every executor whose action has returned eventually
\* terminates: none stays blocked on retC for ever
RaceTerminates ==
    /\ (RaceInProgress /\ (\/ ctx # "none"
                            \/ dctx # "none"
                            \/ \E i \in DOMAIN actions : eret[i] # "pending"))
           ~> (cpc = "returned")
    /\ \A i \in 0 .. (MaxFairActions - 1) :
           (i \in DOMAIN actions /\ epc[i] \in {"select", "parked", "exit"})
               ~> (i \in DOMAIN actions /\ epc[i] = "done")

RaceTerminatesWitness ==
    /\ NumActions = MaxFairActions
    /\ actions[0].mode = "free"
    /\ \A i \in DOMAIN actions : i > 0 => actions[i] = [mode |-> "block", out |-> "ctx"]
    /\ ctx = "none"
    /\ cpc = "returned"
    /\ raceRet = actions[0].out
    /\ \A i \in DOMAIN actions : epc[i] = "done"
    /\ \A i \in DOMAIN actions : i > 0 => eret[i] = "canceled"

\* the delivered events on which the wait func returned nil
NilResults ==
    {i \in DOMAIN delivered : WaitFunc(wait, delivered[i]) = "nil"}

\* C19: waitNavEvent returns nil or the error of the caller's scope and
\* nothing else.  A non-nil result of the wait func, ErrNotMatch or any other
\* error, is never returned and does not end the wait: completion is signalled
\* for the events on which the wait func returned nil and for no other, and
\* nil is returned after such an event only
NavPredicateErrorIgnored ==
    /\ (wait # "unset" /\ npc = "returned") =>
           /\ navRet \in {"nil"} \cup CtxErrors
           /\ navRet \in CtxErrors => navRet = ctx
    /\ (wait \in {"Load", "Frame", "Func"}) =>
           /\ closes + ClosePending = Cardinality(NilResults)
           /\ (npc = "returned" /\ navRet = "nil") => NilResults # {}

NavPredicateErrorIgnoredWitness ==
    /\ wait = "Func"
    /\ delivered = <<"LoadEventFired", "FrameNavigated", "Other">>
    /\ closes = 1
    /\ ctx = "none"
    /\ npc = "returned"
    /\ navRet = "nil"

\* C20: when a waitNavEvent that registered its callback has returned, by
\* the match or by the cancellation of the caller's scope, its listener scope
\* is already done.
NavListenerScopeDone ==
    (npc = "returned" /\ sub # "no") => lctx # "none"

====
